---- MODULE Spec2Model ----
(***************************************************************************)
(* Model of the WebSocket hub of gnarlyman/htmx                            *)
(* (internal/handlers/handlers.go, main.go).                               *)
(*                                                                         *)
(* The package-level hub has an unsynchronised map of clients and three    *)
(* unbuffered channels.  Every `go hub.run()` statement that main reaches  *)
(* starts one goroutine executing Hub.run.  Each goroutine is modelled     *)
(* statement by statement, so that interleavings between goroutines that   *)
(* the Go scheduler permits are behaviours of the model.                   *)
(***************************************************************************)
EXTENDS Integers, Sequences, FiniteSets, TLC

\* ---------------------------------------------------------------- bounds
MaxConns == 2        \* WebSocket upgrade requests the environment issues
MaxReqs  == 2        \* CreateRoom / CreateChat requests on one HTTP task
MaxUnregs == 2       \* Unregister events per connection that a driver sends
MaxChats == 3        \* chats in one room's index when the store API is driven
MaxThreads == 2      \* goroutines calling the stores concurrently

Conns == 1..MaxConns
Threads == 1..MaxThreads
Bids  == 1..MaxReqs  \* identity of the broadcast caused by the i-th request
NoConn == 0
NoBid  == 0

\* The goroutines running Hub.run: one per `go hub.run()` statement.
\* "routes" is the one of SetupRoutes, "starthub" the one of StartHub.
Hubs == {"routes", "starthub"}

\* ------------------------------------------------------------- variables
VARIABLES
    mainpc,     \* position of main: "setup", "starthub", "serve"
    crashed,    \* the Go runtime has thrown a fatal error (process is gone)
    clients,    \* hub.clients: the set of keys of the map
    closes,     \* per connection: the Close calls made on it, in order
    hpc,        \* per Hub.run goroutine: the statement it is at
    hconn,      \* per goroutine: the local variable conn
    hmsg,       \* per goroutine: the local variable message
    hbid,       \* per goroutine: which request's broadcast message is
    hsnap,      \* per goroutine: the map's keys when the range loop began
    hvisited,   \* per goroutine: keys the range loop has produced so far
    hfail,      \* per goroutine: keys whose WriteMessage failed in this loop
    ws,         \* per connection: position of Handler.WS and of its reader
    got,        \* per connection and request: the payloads written to the
                \*   connection successfully for that request's broadcast
    unregs,     \* per connection: completed sends on hub.unregister
    unregDone,  \* connections whose Unregister event has been handled
    tpc,        \* the HTTP task: "idle" or "chat_send"
    nreq,       \* requests the HTTP task has begun
    bkind,      \* per request: payload it enqueues ("none" before)
    roomSenders,\* goroutines spawned by CreateRoom, blocked on the send
    bdone,      \* requests whose broadcast has been handled to completion
    status,     \* per request: the HTTP status written (0 before)
    rooms,      \* RoomStore.rooms: the set of keys (room IDs) of the map
    chatsByRoom,\* ChatStore.chatsByRoom: per room ID, the chat IDs in order
    chats,      \* ChatStore.chats: per chat ID its RoomID (NoRoom: no key)
    roomName,   \* RoomStore.rooms: per key the Name of the room stored
    ret,        \* the last store call made from outside the handlers and
                \*   the bool it returned
    mu,         \* per store: its sync.RWMutex (writer held, readers held)
    thr         \* per goroutine calling the stores: the method it is in

hubVars  == <<hpc, hconn, hmsg, hbid, hsnap, hvisited, hfail>>
connVars == <<ws, got, unregs, unregDone>>
reqVars  == <<tpc, nreq, bkind, roomSenders, bdone, status>>
storeVars == <<rooms, chatsByRoom, chats, roomName, ret>>
lockVars == <<mu, thr>>
vars == <<mainpc, crashed, clients, closes, hubVars, connVars, reqVars,
          storeVars, lockVars>>

\* ------------------------------------------------------------- helpers
\* uuid.New().String() in the handler of the b-th request: a fresh ID.
NewID(b) == "uuid-" \o ToString(b)

\* The rooms and chats addSampleData puts in the stores before serving.
SampleRooms == {"1", "2"}
SampleChats == [r \in SampleRooms |-> IF r = "1" THEN <<"1", "2">> ELSE <<"3">>]

RoomIDs == SampleRooms \cup {NewID(b) : b \in Bids}
ChatIDs == {"1", "2", "3"} \cup {NewID(b) : b \in Bids}
NoRoom == ""
NoName == ""
\* The two stores, and a goroutine that is in no store method.
Stores == {"RoomStore", "ChatStore"}
Idle == [op |-> "none", pc |-> "idle", id |-> "", room |-> ""]

NoCall == [op |-> "none", id |-> "", name |-> "", ok |-> FALSE]

\* The Name of the sample rooms and the name posted to CreateRoom.
SampleNames ==
    [r \in SampleRooms |-> IF r = "1" THEN "General" ELSE "Technology"]
PostedName == "New"

\* The :id path parameters CreateChat is called with: a sample room and
\* an ID no room has.
ChatTargets == {"1", "0"}

\* RoomStore.GetRooms: the rooms in the store (as a set of IDs).
GetRooms == rooms

\* RoomStore.GetRoom(id): the `exists` result.
GetRoom(id) == id \in rooms

\* ChatStore.GetChatsByRoom(roomID): a copy of the room's list.
GetChatsByRoom(roomID) == chatsByRoom[roomID]

Closed(c) == Len(closes[c]) > 0

\* Connections whose `hub.register <- conn` has returned.
Registered == {c \in Conns : ws[c] \in {"reading", "unregister", "done"}}

\* Statements of Hub.run that read or write h.clients.
MapReads  == {"unreg_check", "bc_range"}
MapWrites == {"reg_insert", "unreg_delete", "bc_delete"}

Running == {h \in Hubs : hpc[h] # "off"}

\* Two goroutines are about to touch the map together, one of them writing,
\* or are about to write to the same websocket connection together.
Race ==
    \E h1, h2 \in Hubs :
        /\ h1 # h2
        /\ \/ /\ hpc[h1] \in MapWrites
              /\ hpc[h2] \in MapReads \cup MapWrites
           \/ /\ hpc[h1] = "bc_write"
              /\ hpc[h2] = "bc_write"
              /\ hconn[h1] = hconn[h2]

\* ----------------------------------------------------------------- Init
Init ==
    /\ mainpc = "setup"
    /\ crashed = FALSE
    /\ clients = {}
    /\ closes = [c \in Conns |-> <<>>]
    /\ hpc = [h \in Hubs |-> "off"]
    /\ hconn = [h \in Hubs |-> NoConn]
    /\ hmsg = [h \in Hubs |-> "none"]
    /\ hbid = [h \in Hubs |-> NoBid]
    /\ hsnap = [h \in Hubs |-> {}]
    /\ hvisited = [h \in Hubs |-> {}]
    /\ hfail = [h \in Hubs |-> {}]
    /\ ws = [c \in Conns |-> "none"]
    /\ got = [c \in Conns |-> [b \in Bids |-> <<>>]]
    /\ unregs = [c \in Conns |-> 0]
    /\ unregDone = {}
    /\ tpc = "idle"
    /\ nreq = 0
    /\ bkind = [b \in Bids |-> "none"]
    /\ roomSenders = {}
    /\ bdone = {}
    /\ status = [b \in Bids |-> 0]
    /\ rooms = SampleRooms
    /\ chatsByRoom = [r \in RoomIDs |->
                        IF r \in SampleRooms THEN SampleChats[r] ELSE <<>>]
    /\ chats = [i \in ChatIDs |->
                  IF i \in {"1", "2"} THEN "1"
                  ELSE IF i = "3" THEN "2" ELSE NoRoom]
    /\ roomName = [r \in RoomIDs |->
                     IF r \in SampleRooms THEN SampleNames[r] ELSE NoName]
    /\ ret = NoCall
    /\ mu = [s \in Stores |-> [w |-> FALSE, r |-> 0]]
    /\ thr = [t \in Threads |-> Idle]

\* ----------------------------------------------------------------- main
\* handler.SetupRoutes(router): registers the routes, then `go hub.run()`.
SetupRoutes ==
    /\ ~crashed
    /\ mainpc = "setup"
    /\ mainpc' = "starthub"
    /\ hpc' = [hpc EXCEPT !["routes"] = "select"]
    /\ UNCHANGED <<crashed, clients, closes, hconn, hmsg, hbid, hsnap,
                   hvisited, hfail, connVars, reqVars, storeVars, lockVars>>

\* handlers.StartHub(): `go hub.run()`.  Then main serves requests.
StartHub ==
    /\ ~crashed
    /\ mainpc = "starthub"
    /\ mainpc' = "serve"
    /\ hpc' = [hpc EXCEPT !["starthub"] = "select"]
    /\ UNCHANGED <<crashed, clients, closes, hconn, hmsg, hbid, hsnap,
                   hvisited, hfail, connVars, reqVars, storeVars, lockVars>>

\* --------------------------------------------------- Handler.WS + reader
\* upgrader.Upgrade succeeds: the handler reaches `hub.register <- conn`.
WSUpgrade(c) ==
    /\ ~crashed
    /\ mainpc = "serve"
    /\ ws[c] = "none"
    /\ ws' = [ws EXCEPT ![c] = "register"]
    /\ UNCHANGED <<mainpc, crashed, clients, closes, hubVars, got,
                   unregs, unregDone, reqVars, storeVars, lockVars>>

\* WSUpgradeFail with the reader's deferred Unregister send installed before
\* the error test.
WSUpgradeFail_DeferredUnregister(c) ==
    /\ ~crashed
    /\ mainpc = "serve"
    /\ ws[c] = "none"
    /\ ws' = [ws EXCEPT ![c] = "unregister"]
    /\ UNCHANGED <<mainpc, crashed, clients, closes, hubVars, got,
                   unregs, unregDone, reqVars, storeVars, lockVars>>

\* upgrader.Upgrade fails: log and return.
WSUpgradeFail(c) ==
    /\ ~crashed
    /\ mainpc = "serve"
    /\ ws[c] = "none"
    /\ ws' = [ws EXCEPT ![c] = "failed"]
    /\ UNCHANGED <<mainpc, crashed, clients, closes, hubVars, got,
                   unregs, unregDone, reqVars, storeVars, lockVars>>

\* ReaderReadErr with the reader closing the connection itself before it
\* sends the Unregister.
ReaderReadErr_Closes(c) ==
    /\ ~crashed
    /\ ws[c] = "reading"
    /\ ws' = [ws EXCEPT ![c] = "unregister"]
    /\ closes' = [closes EXCEPT ![c] = Append(@, "reader")]
    /\ UNCHANGED <<mainpc, crashed, clients, hubVars, got,
                   unregs, unregDone, reqVars, storeVars, lockVars>>

\* conn.ReadMessage() returns an error (the peer closed, a network error, a
\* protocol violation, or the connection was closed on this side): the
\* loop returns and the deferred send on hub.unregister begins.
ReaderReadErr(c) ==
    /\ ~crashed
    /\ ws[c] = "reading"
    /\ ws' = [ws EXCEPT ![c] = "unregister"]
    /\ UNCHANGED <<mainpc, crashed, clients, closes, hubVars, got,
                   unregs, unregDone, reqVars, storeVars, lockVars>>

\* --------------------------------------------------------- HTTP requests
\* CreateRoom with the broadcast goroutine started before AddRoom has run.
CreateRoom_SendBeforeAdd ==
    /\ ~crashed
    /\ mainpc = "serve"
    /\ tpc = "idle"
    /\ nreq < MaxReqs
    /\ nreq' = nreq + 1
    /\ bkind' = [bkind EXCEPT ![nreq + 1] = "new-room"]
    /\ roomSenders' = roomSenders \cup {nreq + 1}
    /\ status' = [status EXCEPT ![nreq + 1] = 200]
    /\ UNCHANGED <<mainpc, crashed, clients, closes, hubVars, connVars,
                   tpc, bdone, storeVars, lockVars>>

\* Handler.CreateRoom with a valid body: AddRoom, then a new goroutine
\* that sends "new-room" on hub.broadcast; the handler itself returns.
CreateRoom ==
    /\ ~crashed
    /\ mainpc = "serve"
    /\ tpc = "idle"
    /\ nreq < MaxReqs
    /\ nreq' = nreq + 1
    /\ rooms' = rooms \cup {NewID(nreq + 1)}
    /\ roomName' = [roomName EXCEPT ![NewID(nreq + 1)] = PostedName]
    /\ bkind' = [bkind EXCEPT ![nreq + 1] = "new-room"]
    /\ roomSenders' = roomSenders \cup {nreq + 1}
    /\ status' = [status EXCEPT ![nreq + 1] = 200]
    /\ UNCHANGED <<mainpc, crashed, clients, closes, hubVars, connVars,
                   tpc, bdone, chatsByRoom, chats, ret, lockVars>>

\* CreateChat sending the token of CreateRoom.
CreateChat_RoomToken ==
    /\ ~crashed
    /\ mainpc = "serve"
    /\ tpc = "idle"
    /\ nreq < MaxReqs
    /\ \E roomID \in ChatTargets :
          /\ GetRoom(roomID)
          /\ chats' = [chats EXCEPT ![NewID(nreq + 1)] = roomID]
          /\ chatsByRoom' = [chatsByRoom EXCEPT
                                ![roomID] = Append(@, NewID(nreq + 1))]
    /\ nreq' = nreq + 1
    /\ bkind' = [bkind EXCEPT ![nreq + 1] = "new-room"]
    /\ tpc' = "chat_send"
    /\ UNCHANGED <<mainpc, crashed, clients, closes, hubVars, connVars,
                   roomSenders, bdone, status, rooms, roomName, ret,
                   lockVars>>

\* Handler.CreateChat with a valid body: AddChat, then the handler itself
\* executes `hub.broadcast <- []byte("new-chat")`.
CreateChat ==
    /\ ~crashed
    /\ mainpc = "serve"
    /\ tpc = "idle"
    /\ nreq < MaxReqs
    /\ \E roomID \in ChatTargets :
          /\ GetRoom(roomID)
          /\ chats' = [chats EXCEPT ![NewID(nreq + 1)] = roomID]
          /\ chatsByRoom' = [chatsByRoom EXCEPT
                                ![roomID] = Append(@, NewID(nreq + 1))]
    /\ nreq' = nreq + 1
    /\ bkind' = [bkind EXCEPT ![nreq + 1] = "new-chat"]
    /\ tpc' = "chat_send"
    /\ UNCHANGED <<mainpc, crashed, clients, closes, hubVars, connVars,
                   roomSenders, bdone, status, rooms, roomName, ret,
                   lockVars>>

\* Handler.CreateRoom, c.ShouldBind fails (no name): 400 and return.
CreateRoomBadRequest ==
    /\ ~crashed
    /\ mainpc = "serve"
    /\ tpc = "idle"
    /\ nreq < MaxReqs
    /\ nreq' = nreq + 1
    /\ status' = [status EXCEPT ![nreq + 1] = 400]
    /\ UNCHANGED <<mainpc, crashed, clients, closes, hubVars, connVars,
                   tpc, bkind, roomSenders, bdone, storeVars, lockVars>>

\* Handler.CreateChat for a room ID RoomStore.GetRoom does not find: 404
\* and return.
CreateChatNotFound ==
    /\ ~crashed
    /\ mainpc = "serve"
    /\ tpc = "idle"
    /\ nreq < MaxReqs
    /\ \E roomID \in ChatTargets : ~GetRoom(roomID)
    /\ nreq' = nreq + 1
    /\ status' = [status EXCEPT ![nreq + 1] = 404]
    /\ UNCHANGED <<mainpc, crashed, clients, closes, hubVars, connVars,
                   tpc, bkind, roomSenders, bdone, storeVars, lockVars>>

\* CreateChatBadRequest with AddChat called before the body is bound.
CreateChatBadRequest_AddsFirst ==
    /\ ~crashed
    /\ mainpc = "serve"
    /\ tpc = "idle"
    /\ nreq < MaxReqs
    /\ \E roomID \in ChatTargets :
          /\ GetRoom(roomID)
          /\ chats' = [chats EXCEPT ![NewID(nreq + 1)] = roomID]
          /\ chatsByRoom' = [chatsByRoom EXCEPT
                                ![roomID] = Append(@, NewID(nreq + 1))]
    /\ nreq' = nreq + 1
    /\ status' = [status EXCEPT ![nreq + 1] = 400]
    /\ UNCHANGED <<mainpc, crashed, clients, closes, hubVars, connVars,
                   tpc, bkind, roomSenders, bdone, rooms, roomName, ret,
                   lockVars>>

\* Handler.CreateChat for an existing room, c.ShouldBind fails (username
\* or message missing): 400 and return.
CreateChatBadRequest ==
    /\ ~crashed
    /\ mainpc = "serve"
    /\ tpc = "idle"
    /\ nreq < MaxReqs
    /\ \E roomID \in ChatTargets : GetRoom(roomID)
    /\ nreq' = nreq + 1
    /\ status' = [status EXCEPT ![nreq + 1] = 400]
    /\ UNCHANGED <<mainpc, crashed, clients, closes, hubVars, connVars,
                   tpc, bkind, roomSenders, bdone, storeVars, lockVars>>

\* ------------------------------------------------------------- Hub.run
\* case conn := <-h.register.  The send in Handler.WS returns; the handler
\* starts the reader goroutine (`go func() {...}()`), which enters its
\* ReadMessage loop, and returns.
RecvRegister(h, c) ==
    /\ ~crashed
    /\ hpc[h] = "select"
    /\ ws[c] = "register"
    /\ ws' = [ws EXCEPT ![c] = "reading"]
    /\ hpc' = [hpc EXCEPT ![h] = "reg_insert"]
    /\ hconn' = [hconn EXCEPT ![h] = c]
    /\ UNCHANGED <<mainpc, crashed, clients, closes, hmsg, hbid, hsnap,
                   hvisited, hfail, got, unregs, unregDone, reqVars,
                   storeVars, lockVars>>

\* RegInsert flipping the entry instead of setting it.
RegInsert_Toggle(h) ==
    /\ ~crashed
    /\ hpc[h] = "reg_insert"
    /\ clients' = IF hconn[h] \in clients THEN clients \ {hconn[h]}
                                          ELSE clients \cup {hconn[h]}
    /\ hpc' = [hpc EXCEPT ![h] = "select"]
    /\ hconn' = [hconn EXCEPT ![h] = NoConn]
    /\ UNCHANGED <<mainpc, crashed, closes, hmsg, hbid, hsnap, hvisited,
                   hfail, connVars, reqVars, storeVars, lockVars>>

\* h.clients[conn] = true
RegInsert(h) ==
    /\ ~crashed
    /\ hpc[h] = "reg_insert"
    /\ clients' = clients \cup {hconn[h]}
    /\ hpc' = [hpc EXCEPT ![h] = "select"]
    /\ hconn' = [hconn EXCEPT ![h] = NoConn]
    /\ UNCHANGED <<mainpc, crashed, closes, hmsg, hbid, hsnap, hvisited,
                   hfail, connVars, reqVars, storeVars, lockVars>>

\* case conn := <-h.unregister
RecvUnregister(h, c) ==
    /\ ~crashed
    /\ hpc[h] = "select"
    /\ ws[c] = "unregister"
    /\ ws' = [ws EXCEPT ![c] = "done"]
    /\ unregs' = [unregs EXCEPT ![c] = @ + 1]
    /\ hpc' = [hpc EXCEPT ![h] = "unreg_check"]
    /\ hconn' = [hconn EXCEPT ![h] = c]
    /\ UNCHANGED <<mainpc, crashed, clients, closes, hmsg, hbid, hsnap,
                   hvisited, hfail, got, unregDone, reqVars, storeVars,
                   lockVars>>

\* UnregCheck without the `ok` test: the delete and the Close always run.
UnregCheck_NoTest(h) ==
    /\ ~crashed
    /\ hpc[h] = "unreg_check"
    /\ hpc' = [hpc EXCEPT ![h] = "unreg_delete"]
    /\ UNCHANGED <<hconn, unregDone>>
    /\ UNCHANGED <<mainpc, crashed, clients, closes, hmsg, hbid, hsnap,
                   hvisited, hfail, ws, got, unregs, reqVars, storeVars,
                   lockVars>>

\* if _, ok := h.clients[conn]; ok { ... }
UnregCheck(h) ==
    /\ ~crashed
    /\ hpc[h] = "unreg_check"
    /\ IF hconn[h] \in clients
         THEN /\ hpc' = [hpc EXCEPT ![h] = "unreg_delete"]
              /\ UNCHANGED <<hconn, unregDone>>
         ELSE /\ hpc' = [hpc EXCEPT ![h] = "select"]
              /\ hconn' = [hconn EXCEPT ![h] = NoConn]
              /\ unregDone' = unregDone \cup {hconn[h]}
    /\ UNCHANGED <<mainpc, crashed, clients, closes, hmsg, hbid, hsnap,
                   hvisited, hfail, ws, got, unregs, reqVars, storeVars,
                   lockVars>>

\* UnregDelete with the delete statement left out.
UnregDelete_NoDelete(h) ==
    /\ ~crashed
    /\ hpc[h] = "unreg_delete"
    /\ clients' = clients
    /\ hpc' = [hpc EXCEPT ![h] = "unreg_close"]
    /\ UNCHANGED <<mainpc, crashed, closes, hconn, hmsg, hbid, hsnap,
                   hvisited, hfail, connVars, reqVars, storeVars, lockVars>>

\* delete(h.clients, conn)
UnregDelete(h) ==
    /\ ~crashed
    /\ hpc[h] = "unreg_delete"
    /\ clients' = clients \ {hconn[h]}
    /\ hpc' = [hpc EXCEPT ![h] = "unreg_close"]
    /\ UNCHANGED <<mainpc, crashed, closes, hconn, hmsg, hbid, hsnap,
                   hvisited, hfail, connVars, reqVars, storeVars, lockVars>>

\* conn.Close()
UnregClose(h) ==
    /\ ~crashed
    /\ hpc[h] = "unreg_close"
    /\ closes' = [closes EXCEPT ![hconn[h]] = Append(@, "unregister")]
    /\ unregDone' = unregDone \cup {hconn[h]}
    /\ hpc' = [hpc EXCEPT ![h] = "select"]
    /\ hconn' = [hconn EXCEPT ![h] = NoConn]
    /\ UNCHANGED <<mainpc, crashed, clients, hmsg, hbid, hsnap, hvisited,
                   hfail, ws, got, unregs, reqVars, storeVars, lockVars>>

\* case message := <-h.broadcast, the sender being CreateChat itself (the
\* HTTP task) or a goroutine spawned by CreateRoom; the range loop begins.
RecvBroadcast(h, b) ==
    /\ ~crashed
    /\ hpc[h] = "select"
    /\ \/ /\ tpc = "chat_send"
          /\ b = nreq
          /\ tpc' = "idle"
          /\ status' = [status EXCEPT ![b] = 200]
          /\ UNCHANGED roomSenders
       \/ /\ b \in roomSenders
          /\ roomSenders' = roomSenders \ {b}
          /\ UNCHANGED <<tpc, status>>
    /\ hpc' = [hpc EXCEPT ![h] = "bc_range"]
    /\ hmsg' = [hmsg EXCEPT ![h] = bkind[b]]
    /\ hbid' = [hbid EXCEPT ![h] = b]
    /\ hsnap' = [hsnap EXCEPT ![h] = clients]
    /\ hvisited' = [hvisited EXCEPT ![h] = {}]
    /\ hfail' = [hfail EXCEPT ![h] = {}]
    /\ UNCHANGED <<mainpc, crashed, clients, closes, hconn, connVars,
                   nreq, bkind, bdone, storeVars, lockVars>>

\* for conn := range h.clients: the loop produces a key that is in the map
\* now and that it has not produced before.
BcRangeNext(h, c) ==
    /\ ~crashed
    /\ hpc[h] = "bc_range"
    /\ c \in clients \ hvisited[h]
    /\ hvisited' = [hvisited EXCEPT ![h] = @ \cup {c}]
    /\ hconn' = [hconn EXCEPT ![h] = c]
    /\ hpc' = [hpc EXCEPT ![h] = "bc_write"]
    /\ UNCHANGED <<mainpc, crashed, clients, closes, hmsg, hbid, hsnap,
                   hfail, connVars, reqVars, storeVars, lockVars>>

\* The range loop ends: every key that was in the map when the loop began
\* and still is has been produced (a key inserted during the iteration may
\* be produced or skipped).
BcRangeEnd(h) ==
    /\ ~crashed
    /\ hpc[h] = "bc_range"
    /\ (hsnap[h] \cap clients) \ hvisited[h] = {}
    /\ hpc' = [hpc EXCEPT ![h] = "select"]
    /\ hconn' = [hconn EXCEPT ![h] = NoConn]
    /\ hmsg' = [hmsg EXCEPT ![h] = "none"]
    /\ hbid' = [hbid EXCEPT ![h] = NoBid]
    /\ hsnap' = [hsnap EXCEPT ![h] = {}]
    /\ hvisited' = [hvisited EXCEPT ![h] = {}]
    /\ hfail' = [hfail EXCEPT ![h] = {}]
    /\ bdone' = bdone \cup {hbid[h]}
    /\ UNCHANGED <<mainpc, crashed, clients, closes, connVars, tpc, nreq,
                   bkind, roomSenders, status, storeVars, lockVars>>

\* err := conn.WriteMessage(websocket.TextMessage, message), err == nil.
\* A connection that was closed on this side accepts no write.
BcWriteOk(h) ==
    /\ ~crashed
    /\ hpc[h] = "bc_write"
    /\ ~Closed(hconn[h])
    /\ got' = [got EXCEPT ![hconn[h]][hbid[h]] = Append(@, hmsg[h])]
    /\ hpc' = [hpc EXCEPT ![h] = "bc_range"]
    /\ hconn' = [hconn EXCEPT ![h] = NoConn]
    /\ UNCHANGED <<mainpc, crashed, clients, closes, hmsg, hbid,
                   hsnap, hvisited, hfail, ws, unregs, unregDone,
                   reqVars, storeVars, lockVars>>

\* err := conn.WriteMessage(...), err != nil.
BcWriteErr(h) ==
    /\ ~crashed
    /\ hpc[h] = "bc_write"
    /\ hfail' = [hfail EXCEPT ![h] = @ \cup {hconn[h]}]
    /\ hpc' = [hpc EXCEPT ![h] = "bc_close"]
    /\ UNCHANGED <<mainpc, crashed, clients, closes, hconn, hmsg, hbid,
                   hsnap, hvisited, connVars, reqVars, storeVars, lockVars>>

\* conn.Close() after a failed write
BcClose(h) ==
    /\ ~crashed
    /\ hpc[h] = "bc_close"
    /\ closes' = [closes EXCEPT ![hconn[h]] = Append(@, "evict")]
    /\ hpc' = [hpc EXCEPT ![h] = "bc_delete"]
    /\ UNCHANGED <<mainpc, crashed, clients, hconn, hmsg, hbid, hsnap,
                   hvisited, hfail, connVars, reqVars, storeVars, lockVars>>

\* delete(h.clients, conn) after a failed write
BcDelete(h) ==
    /\ ~crashed
    /\ hpc[h] = "bc_delete"
    /\ clients' = clients \ {hconn[h]}
    /\ hpc' = [hpc EXCEPT ![h] = "bc_range"]
    /\ hconn' = [hconn EXCEPT ![h] = NoConn]
    /\ UNCHANGED <<mainpc, crashed, closes, hmsg, hbid, hsnap,
                   hvisited, hfail, connVars, reqVars, storeVars, lockVars>>

\* The Go runtime detects the unsynchronised map access (or the websocket
\* library the concurrent write) and ends the process.
Crash ==
    /\ ~crashed
    /\ Race
    /\ crashed' = TRUE
    /\ UNCHANGED <<mainpc, clients, closes, hubVars, connVars, reqVars,
                   storeVars, lockVars>>

\* ------------------------------------------------------------------ Next
Next ==
    \/ SetupRoutes
    \/ StartHub
    \/ \E c \in Conns : WSUpgrade(c)
    \/ \E c \in Conns : WSUpgradeFail(c)
    \/ \E c \in Conns : ReaderReadErr(c)
    \/ CreateRoom
    \/ CreateChat
    \/ CreateRoomBadRequest
    \/ CreateChatNotFound
    \/ CreateChatBadRequest
    \/ \E h \in Hubs, c \in Conns : RecvRegister(h, c)
    \/ \E h \in Hubs : RegInsert(h)
    \/ \E h \in Hubs, c \in Conns : RecvUnregister(h, c)
    \/ \E h \in Hubs : UnregCheck(h)
    \/ \E h \in Hubs : UnregDelete(h)
    \/ \E h \in Hubs : UnregClose(h)
    \/ \E h \in Hubs, b \in Bids : RecvBroadcast(h, b)
    \/ \E h \in Hubs, c \in Conns : BcRangeNext(h, c)
    \/ \E h \in Hubs : BcRangeEnd(h)
    \/ \E h \in Hubs : BcWriteOk(h)
    \/ \E h \in Hubs : BcWriteErr(h)
    \/ \E h \in Hubs : BcClose(h)
    \/ \E h \in Hubs : BcDelete(h)
    \/ Crash

Spec == Init /\ [][Next]_vars

TypeOK ==
    /\ mainpc \in {"setup", "starthub", "serve"}
    /\ crashed \in BOOLEAN
    /\ clients \subseteq Conns
    /\ \A c \in Conns : Len(closes[c]) <= 1 + MaxReqs
    /\ nreq \in 0..MaxReqs
    /\ rooms \subseteq RoomIDs
    /\ status \in [Bids -> {0, 200, 400, 404}]
\* ------------------------------------------------------------- fairness
\* The Go scheduler runs every runnable goroutine; a select whose case is
\* ready again and again takes it; a write on a connection returns.
HubFairness(h) ==
    /\ WF_vars(RegInsert(h))
    /\ WF_vars(UnregCheck(h))
    /\ WF_vars(UnregDelete(h))
    /\ WF_vars(UnregClose(h))
    /\ WF_vars(\E c \in Conns : BcRangeNext(h, c))
    /\ WF_vars(BcRangeEnd(h))
    /\ WF_vars(BcWriteOk(h) \/ BcWriteErr(h))
    /\ WF_vars(BcClose(h))
    /\ WF_vars(BcDelete(h))
    /\ SF_vars(\E c \in Conns : RecvRegister(h, c))
    /\ SF_vars(\E c \in Conns : RecvUnregister(h, c))
    /\ SF_vars(\E b \in Bids : RecvBroadcast(h, b))

FairSpec ==
    /\ Spec
    /\ WF_vars(SetupRoutes)
    /\ WF_vars(StartHub)
    /\ \A h \in Hubs : HubFairness(h)

\* -------------------------------------------- registration stress scenario
\* The environment of the concurrent-registration scenario: every upgrade
\* succeeds, requests arrive only after every Register send has returned,
\* no read and no write fails.
AllRegistered == \A c \in Conns : ws[c] = "reading"

StressCreateRoom == AllRegistered /\ CreateRoom
StressCreateChat == AllRegistered /\ CreateChat

StressNext ==
    \/ SetupRoutes
    \/ StartHub
    \/ \E c \in Conns : WSUpgrade(c)
    \/ StressCreateRoom
    \/ StressCreateChat
    \/ \E h \in Hubs, c \in Conns : RecvRegister(h, c)
    \/ \E h \in Hubs : RegInsert(h)
    \/ \E h \in Hubs, b \in Bids : RecvBroadcast(h, b)
    \/ \E h \in Hubs, c \in Conns : BcRangeNext(h, c)
    \/ \E h \in Hubs : BcRangeEnd(h)
    \/ \E h \in Hubs : BcWriteOk(h)
    \/ Crash

StressSpec == Init /\ [][StressNext]_vars

\* ------------------------------------------------------------------ claims
Busy(h) == hpc[h] \notin {"off", "select"}

\* The goroutine h leaves its range loop in this step.
BroadcastEnds(h) == hpc[h] = "bc_range" /\ hpc'[h] = "select"

\* C1: partial-failure isolation.  When a goroutine finishes handling one
\* Broadcast that it began with the registry N and in which the sends to
\* the connections F failed, every connection of N outside F has received
\* the payload exactly once, every connection of F is closed and out of the
\* registry, and the registry is exactly N without F.
C1_PartialFailureIsolation ==
    [][\A h \in Hubs : BroadcastEnds(h) =>
          /\ \A c \in hsnap[h] \ hfail[h] : got'[c][hbid[h]] = <<hmsg[h]>>
          /\ \A c \in hfail[h] : Len(closes'[c]) > 0 /\ c \notin clients'
          /\ clients' = hsnap[h] \ hfail[h]]_vars

\* C2: delivery completeness.  When a goroutine finishes handling one
\* Broadcast that it began with the registry N and in which no send failed,
\* exactly the connections of N have been sent the payload of the request,
\* each exactly once, and the registry is still N.
C2_DeliveryCompleteness ==
    [][\A h \in Hubs : (BroadcastEnds(h) /\ hfail[h] = {}) =>
          /\ hmsg[h] = bkind[hbid[h]]
          /\ \A c \in hsnap[h] : got'[c][hbid[h]] = <<bkind[hbid[h]]>>
          /\ \A c \in Conns \ hsnap[h] : got'[c][hbid[h]] = <<>>
          /\ clients' = hsnap[h]]_vars

\* C3: once main serves requests, exactly one goroutine executes Hub.run.
C3_ExactlyOneCoordinator ==
    mainpc = "serve" => Cardinality(Running) = 1

\* C4: registry accesses are serialized: no two goroutines are handling an
\* event (inserting, deleting, iterating, writing to a connection) at the
\* same time.
C4_RegistrySerialized ==
    \A h1, h2 \in Hubs : (h1 # h2) => ~(Busy(h1) /\ Busy(h2))

\* C5: when every connection's Register send had returned before a
\* Broadcast was enqueued, and no send fails and nothing is unregistered,
\* then once that Broadcast has been handled every connection has received
\* its payload exactly once.
C5_ConcurrentRegistrationNoLoss ==
    \A b \in bdone : \A c \in Conns : got[c][b] = <<bkind[b]>>

\* C6: handling Unregister(c) for a registered c removes c from the
\* registry and closes it; the delete and the Close change nothing about
\* any other connection.
C6_UnregisterRemovesAndCloses ==
    [][\A h \in Hubs :
          /\ (hpc[h] = "unreg_delete" /\ hpc'[h] = "unreg_close") =>
                /\ clients' = clients \ {hconn[h]}
                /\ closes' = closes
          /\ (hpc[h] = "unreg_close" /\ hpc'[h] = "select") =>
                /\ hconn[h] \notin clients'
                /\ Len(closes'[hconn[h]]) > 0
                /\ \A d \in Conns \ {hconn[h]} :
                      /\ closes'[d] = closes[d]
                      /\ (d \in clients') = (d \in clients)]_vars

\* C6 witness: an Unregister of a registered connection has been handled
\* while another connection stays registered and open.
C6_Witness ==
    \E c, d \in Conns :
        /\ c # d
        /\ closes[c] = <<"unregister">>
        /\ c \in unregDone
        /\ c \notin clients
        /\ d \in clients
        /\ closes[d] = <<>>

\* C7: delivery window.  Once the handling of Unregister(c) has completed,
\* or c has been evicted, no payload is written to c any more: a connection
\* receives payloads only between its Register and its Unregister.
C7_DeliveryWindow ==
    [][\A c \in Conns :
          (c \in unregDone \/ Len(closes[c]) > 0) => got'[c] = got[c]]_vars

\* C8: FIFO per producer.  Of two events that the HTTP task enqueued itself
\* one after the other (two CreateChat sends), the second is never handled
\* to completion while the first is not.
C8_FifoPerProducer ==
    \A b1, b2 \in Bids :
        (b1 < b2 /\ bkind[b1] = "new-chat" /\ bkind[b2] = "new-chat"
         /\ b2 \in bdone) => b1 \in bdone

\* C9: a reader whose read has failed enqueues exactly one Unregister for
\* its connection and terminates, and no connection ever has more than one
\* Unregister enqueued.
C9_ExactlyOneUnregister ==
    /\ [](\A c \in Conns : unregs[c] <= 1)
    /\ \A c \in Conns :
          (ws[c] = "unregister") ~> (ws[c] = "done" /\ unregs[c] = 1)

\* C10: no connection's Close is invoked more than once by the hub.
C10_NoDoubleClose ==
    \A c \in Conns : Len(closes[c]) <= 1

\* Some task is blocked in a send on one of the hub's channels.
ProducerAtSend ==
    \/ tpc = "chat_send"
    \/ roomSenders # {}
    \/ \E c \in Conns : ws[c] \in {"register", "unregister"}

\* C11: producers do not wait on the coordinator.  Whenever a handler or a
\* reader is at its send on a hub channel (and the process is alive), a
\* Hub.run goroutine is at its select to take the event: the send does not
\* have to wait for an event that is being handled.
C11_ProducersDoNotWait ==
    (~crashed /\ ProducerAtSend) => \E h \in Hubs : hpc[h] = "select"

\* Goroutine h is handling the failure of a connection: the Close and the
\* delete after a failed write, or an Unregister whose connection is absent.
FailureHandling(h) ==
    \/ hpc[h] \in {"bc_close", "bc_delete"}
    \/ hpc[h] = "unreg_check" /\ hconn[h] \notin clients

\* C12: the hub loop survives connection failures.  No step taken while a
\* goroutine handles a connection's failure ends the process or the
\* goroutine.
C12_LoopSurvivesFailures ==
    [][\A h \in Hubs : FailureHandling(h) =>
          (~crashed' /\ hpc'[h] # "off")]_vars

\* ------------------------------------------------- the hub under a driver
\* The hub's goroutines fed by a driver that sends any Register and
\* Unregister events on the channels, for any connection and any number of
\* times (the sends that Handler.WS and its reader perform, without their
\* order of one Register followed by one Unregister per connection).
DriveRegister(h, c) ==
    /\ ~crashed
    /\ mainpc = "serve"
    /\ hpc[h] = "select"
    /\ hpc' = [hpc EXCEPT ![h] = "reg_insert"]
    /\ hconn' = [hconn EXCEPT ![h] = c]
    /\ UNCHANGED <<mainpc, crashed, clients, closes, hmsg, hbid, hsnap,
                   hvisited, hfail, connVars, reqVars, storeVars, lockVars>>

DriveUnregister(h, c) ==
    /\ ~crashed
    /\ mainpc = "serve"
    /\ hpc[h] = "select"
    /\ unregs[c] < MaxUnregs
    /\ unregs' = [unregs EXCEPT ![c] = @ + 1]
    /\ hpc' = [hpc EXCEPT ![h] = "unreg_check"]
    /\ hconn' = [hconn EXCEPT ![h] = c]
    /\ UNCHANGED <<mainpc, crashed, clients, closes, hmsg, hbid, hsnap,
                   hvisited, hfail, ws, got, unregDone, reqVars, storeVars,
                   lockVars>>

DriverNext ==
    \/ SetupRoutes
    \/ StartHub
    \/ \E h \in Hubs, c \in Conns : DriveRegister(h, c)
    \/ \E h \in Hubs, c \in Conns : DriveUnregister(h, c)
    \/ \E h \in Hubs : RegInsert(h)
    \/ \E h \in Hubs : UnregCheck(h)
    \/ \E h \in Hubs : UnregDelete(h)
    \/ \E h \in Hubs : UnregClose(h)
    \/ Crash

DriverSpec == Init /\ [][DriverNext]_vars

\* C13: Register idempotence.  Handling Register(c) for a connection that
\* is already in the registry leaves the registry, members and size, as it
\* was.
C13_RegisterIdempotent ==
    [][\A h \in Hubs :
          (hpc[h] = "reg_insert" /\ hpc'[h] = "select"
           /\ hconn[h] \in clients) =>
              /\ clients' = clients
              /\ Cardinality(clients') = Cardinality(clients)]_vars

\* C13 witness: a second Register(c) has been received for a connection
\* that an earlier Register put into the registry, next to another member.
C13_Witness ==
    \E h \in Hubs :
        /\ hpc[h] = "reg_insert"
        /\ hconn[h] \in clients
        /\ clients # {hconn[h]}

C15_NoConnectionLeak ==
    \A c \in Conns :
        [](ws[c] \in {"unregister", "done"} =>
              <>(crashed \/ [](Len(closes[c]) > 0 /\ c \notin clients)))

\* C16: upgrade failure produces nothing.  A /ws request leaves its start
\* either by a successful upgrade, blocked on the Register send, or by a
\* failed one; after a failed upgrade the request stays finished, no
\* Register or Unregister for it is ever sent or handled, its connection is
\* never in the registry, never written to and never closed, and the
\* failing step itself leaves the registry as it was.
C16_UpgradeFailureProducesNothing ==
    [][\A c \in Conns :
          /\ (ws[c] = "none" /\ ws'[c] # "none") =>
                /\ ws'[c] \in {"register", "failed"}
                /\ clients' = clients
          /\ (ws[c] = "failed") =>
                /\ ws'[c] = "failed"
                /\ c \notin clients'
                /\ unregs'[c] = 0
                /\ c \notin unregDone'
                /\ closes'[c] = <<>>
                /\ \A b \in Bids : got'[c][b] = <<>>
                /\ \A h \in Hubs : hconn'[h] # c]_vars

\* C16 witness: an upgrade has failed while another connection is
\* registered.
C16_Witness ==
    \E c, d \in Conns : ws[c] = "failed" /\ d \in clients

\* Goroutine h executes a statement of Hub.run that writes the registry or
\* closes a connection.
HubMutates(h) ==
    /\ hpc[h] \in {"reg_insert", "unreg_delete", "unreg_close",
                   "bc_close", "bc_delete"}
    /\ hpc'[h] # hpc[h]

\* C17: only the coordinator touches the registry and closes connections.
\* Every step that changes hub.clients or invokes a Close is a step of a
\* Hub.run goroutine at its insert, delete or Close statement; the steps of
\* Handler.WS, of the readers and of CreateRoom / CreateChat change neither.
C17_OnlyCoordinatorMutates ==
    [][(clients' # clients \/ closes' # closes) =>
          \E h \in Hubs : HubMutates(h)]_vars

\* C17 witness: handlers, readers and request handlers have all run, and
\* the registry has changed and a connection has been closed.
C17_Witness ==
    /\ nreq > 0
    /\ clients # {}
    /\ \E c \in Conns : ws[c] = "done" /\ Len(closes[c]) > 0

\* ------------------------------------------------- stores and broadcasts
\* The chat IDs GetChatsByRoom returns for some room.
VisibleChats ==
    UNION {{GetChatsByRoom(r)[i] : i \in 1..Len(GetChatsByRoom(r))} :
             r \in RoomIDs}

\* The room (resp. chat) created by request b is in its store.
Committed(b) ==
    /\ bkind[b] = "new-room" => NewID(b) \in GetRooms
    /\ bkind[b] = "new-chat" => NewID(b) \in VisibleChats

\* Request b's send on hub.broadcast has begun and has not been received.
Enqueued(b) ==
    \/ b \in roomSenders
    \/ tpc = "chat_send" /\ b = nreq

\* C18: broadcast follows the store commit.  Whenever the broadcast of a
\* request is being sent on hub.broadcast, is being handled by Hub.run or
\* has delivered its payload to a connection, the room (for "new-room") or
\* the chat (for "new-chat") the request created is already returned by
\* GetRooms resp. GetChatsByRoom.
C18_BroadcastFollowsCommit ==
    \A b \in Bids :
        (\/ Enqueued(b)
         \/ \E h \in Hubs : hbid[h] = b
         \/ \E c \in Conns : got[c][b] # <<>>)
        => /\ bkind[b] \in {"new-room", "new-chat"}
           /\ Committed(b)

\* C18 witness: one connection has received "new-room" and one "new-chat".
C18_Witness ==
    \E c, d \in Conns, b, e \in Bids :
        /\ got[c][b] = <<"new-room">>
        /\ got[d][e] = <<"new-chat">>

\* The number of broadcast events request b has caused: sends on
\* hub.broadcast not yet received, events a Hub.run goroutine is handling,
\* and events handled to completion.
Broadcasts(b) ==
    (IF Enqueued(b) THEN 1 ELSE 0)
      + Cardinality({h \in Hubs : hbid[h] = b})
      + (IF b \in bdone THEN 1 ELSE 0)

\* C19: wire vocabulary.  Every payload written to a connection is
\* "new-room" or "new-chat" and is the payload its request enqueued (as is
\* the message a Hub.run goroutine holds); a request that added a room
\* enqueued "new-room" and one that added a chat "new-chat"; and every
\* request that succeeded has caused exactly one broadcast event, every
\* other none.
C19_WireVocabulary ==
    /\ \A c \in Conns, b \in Bids :
          \A i \in 1..Len(got[c][b]) :
              /\ got[c][b][i] \in {"new-room", "new-chat"}
              /\ got[c][b][i] = bkind[b]
    /\ \A h \in Hubs :
          hbid[h] # NoBid => hmsg[h] = bkind[hbid[h]]
    /\ \A b \in Bids :
          /\ NewID(b) \in GetRooms => bkind[b] = "new-room"
          /\ NewID(b) \in VisibleChats => bkind[b] = "new-chat"
          /\ Broadcasts(b) =
               (IF NewID(b) \in GetRooms \cup VisibleChats THEN 1 ELSE 0)

\* C19 witness: a CreateRoom and a CreateChat have succeeded, both
\* broadcasts have been handled to completion, and a connection has
\* received a payload.
C19_Witness ==
    /\ bdone = Bids
    /\ \E b, e \in Bids : bkind[b] = "new-room" /\ bkind[e] = "new-chat"
    /\ \E c \in Conns, b \in Bids : got[c][b] # <<>>

\* Goroutine h is inside conn.WriteMessage of the broadcast loop.
InSend(h) == hpc[h] = "bc_write"

\* Goroutine h takes an event from one of the three channels in this step.
TakesEvent(h) == hpc[h] = "select" /\ hpc'[h] # "select"

\* C20: no send timeout.  While a WriteMessage of the broadcast loop has
\* not returned, no Register, Unregister or Broadcast event is taken from
\* the hub's channels (so every later sender stays blocked).
C20_StalledSendStallsHub ==
    [][(\E h \in Hubs : InSend(h) /\ InSend(h)') =>
          ~ \E g \in Hubs : TakesEvent(g)]_vars

\* ----------------------------------------------- registration and reader
\* A Hub.run goroutine has received Register(c) and has not yet executed
\* h.clients[c] = true.
InsertPending(c) ==
    \E g \in Hubs : hpc[g] = "reg_insert" /\ hconn[g] = c

\* A Hub.run goroutine is handling Unregister(c).
HandlingUnregister(c) ==
    \E h \in Hubs :
        /\ hpc[h] \in {"unreg_check", "unreg_delete", "unreg_close"}
        /\ hconn[h] = c

\* C21: registration precedes the reader.  The reader of a connection
\* exists only when the connection's Register send has completed, and no
\* Unregister(c) is handled, or has been handled, while the insertion of c
\* is still to come.
C21_RegistrationPrecedesReader ==
    \A c \in Conns :
        /\ (unregs[c] > 0 \/ ws[c] \in {"reading", "unregister", "done"})
              => c \in Registered
        /\ InsertPending(c) => ~HandlingUnregister(c) /\ c \notin unregDone

\* ------------------------------------------------ registry members open
\* Goroutine h is between two events: at its select, ready for the next.
BetweenEvents(h) == hpc[h] = "select"

\* The registry invariant of Hub.run: members are open, a connection that
\* was inserted and has left is closed, and no insert of a closed
\* connection is pending.
RegistryMembersOpen ==
    \A c \in Conns :
        /\ c \in clients => ~Closed(c)
        /\ Closed(c) <=> (c \in Registered /\ ~InsertPending(c)
                            /\ c \notin clients)
        /\ InsertPending(c) => ~Closed(c)

\* C22: registry members are open.  Whenever a Hub.run goroutine is
\* between two events, no connection in the registry has been closed, a
\* connection is closed exactly if it was inserted and has left the
\* registry, and no closed connection is about to be inserted.
C22_RegistryMembersOpen ==
    (\E h \in Hubs : BetweenEvents(h)) => RegistryMembersOpen

\* ------------------------------------------------------ rejected requests
\* The handler of request b returns with an error status in this step.
Rejects(b) == status[b] = 0 /\ status'[b] \in {400, 404}

\* C23: rejected requests publish nothing.  A step in which CreateRoom
\* answers 400, or CreateChat answers 404 or 400, leaves RoomStore and
\* ChatStore unchanged and enqueues no Broadcast (no sender goroutine is
\* started, the handler does not go to its send, no payload is recorded
\* for the request), and the hub is not touched.
C23_RejectedPublishNothing ==
    [][\A b \in Bids :
          Rejects(b) =>
              /\ rooms' = rooms
              /\ chatsByRoom' = chatsByRoom
              /\ roomSenders' = roomSenders
              /\ tpc' = tpc
              /\ bkind' = bkind /\ bkind[b] = "none"
              /\ ~Enqueued(b)'
              /\ UNCHANGED <<clients, closes, hubVars, connVars, bdone>>]_vars

\* C23 witness: a request was rejected with 400 and one with 404, and
\* nothing was enqueued or stored for either.
C23_Witness ==
    \E b, e \in Bids :
        /\ status[b] = 400 /\ status[e] = 404
        /\ rooms = SampleRooms
        /\ \A r \in SampleRooms : chatsByRoom[r] = SampleChats[r]

\* ------------------------------------------------------- the store API
\* The stores called directly, in any order, with IDs and names drawn from
\* small sets: the methods of RoomStore and ChatStore besides the ones the
\* handlers use.
CallRoomIDs == {"1", NewID(1)}
CallChatIDs == {"1", "3"}
CallNames == {"General", "Renamed"}

Returned(op, id, name, ok) ==
    [op |-> op, id |-> id, name |-> name, ok |-> ok]

\* The elements of a list of chats.
Elems(s) == {s[i] : i \in 1..Len(s)}

\* How often chat id occurs in a list of chats.
Count(s, id) == Cardinality({i \in 1..Len(s) : s[i] = id})

\* append(roomChats[:i], roomChats[i+1:]...) for the first i with
\* roomChats[i].ID == id; the list itself if there is none.
RemoveFirst(s, id) ==
    IF id \notin Elems(s) THEN s
    ELSE LET i == CHOOSE k \in 1..Len(s) :
                      s[k] = id /\ \A j \in 1..(k - 1) : s[j] # id
         IN  SubSeq(s, 1, i - 1) \o SubSeq(s, i + 1, Len(s))

\* ChatStore.GetChat(id): the `exists` result.
GetChat(id) == chats[id] # NoRoom

\* ChatStore.AddChat(chat), chat.ID = id and chat.RoomID = roomID.
AddChat(id, roomID) ==
    /\ Len(chatsByRoom[roomID]) < MaxChats
    /\ chats' = [chats EXCEPT ![id] = roomID]
    /\ chatsByRoom' = [chatsByRoom EXCEPT ![roomID] = Append(@, id)]
    /\ ret' = Returned("AddChat", id, NoName, TRUE)
    /\ UNCHANGED <<mainpc, crashed, clients, closes, hubVars, connVars,
                   reqVars, rooms, roomName, lockVars>>

\* ChatStore.DeleteChat(id)
DeleteChat(id) ==
    /\ IF ~GetChat(id)
         THEN /\ ret' = Returned("DeleteChat", id, NoName, FALSE)
              /\ UNCHANGED <<chats, chatsByRoom>>
         ELSE /\ chats' = [chats EXCEPT ![id] = NoRoom]
              /\ chatsByRoom' = [chatsByRoom EXCEPT
                                    ![chats[id]] = RemoveFirst(@, id)]
              /\ ret' = Returned("DeleteChat", id, NoName, TRUE)
    /\ UNCHANGED <<mainpc, crashed, clients, closes, hubVars, connVars,
                   reqVars, rooms, roomName, lockVars>>

\* ChatStore.DeleteChatsByRoom(roomID)
DeleteChatsByRoom(roomID) ==
    /\ chats' = [i \in ChatIDs |->
                   IF i \in Elems(chatsByRoom[roomID]) THEN NoRoom
                   ELSE chats[i]]
    /\ chatsByRoom' = [chatsByRoom EXCEPT ![roomID] = <<>>]
    /\ ret' = Returned("DeleteChatsByRoom", roomID, NoName, TRUE)
    /\ UNCHANGED <<mainpc, crashed, clients, closes, hubVars, connVars,
                   reqVars, rooms, roomName, lockVars>>

\* RoomStore.AddRoom(room), room.ID = id and room.Name = name.
AddRoom(id, name) ==
    /\ rooms' = rooms \cup {id}
    /\ roomName' = [roomName EXCEPT ![id] = name]
    /\ ret' = Returned("AddRoom", id, name, TRUE)
    /\ UNCHANGED <<mainpc, crashed, clients, closes, hubVars, connVars,
                   reqVars, chats, chatsByRoom, lockVars>>

\* UpdateRoom without the `exists` test: the room is stored in any case.
UpdateRoom_Upsert(id, name) ==
    /\ rooms' = rooms \cup {id}
    /\ roomName' = [roomName EXCEPT ![id] = name]
    /\ ret' = Returned("UpdateRoom", id, name, TRUE)
    /\ UNCHANGED <<mainpc, crashed, clients, closes, hubVars, connVars,
                   reqVars, chats, chatsByRoom, lockVars>>

\* RoomStore.UpdateRoom(room), room.ID = id and room.Name = name.
UpdateRoom(id, name) ==
    /\ IF ~GetRoom(id)
         THEN /\ ret' = Returned("UpdateRoom", id, name, FALSE)
              /\ UNCHANGED <<rooms, roomName>>
         ELSE /\ roomName' = [roomName EXCEPT ![id] = name]
              /\ ret' = Returned("UpdateRoom", id, name, TRUE)
              /\ UNCHANGED rooms
    /\ UNCHANGED <<mainpc, crashed, clients, closes, hubVars, connVars,
                   reqVars, chats, chatsByRoom, lockVars>>

\* RoomStore.DeleteRoom(id)
DeleteRoom(id) ==
    /\ IF ~GetRoom(id)
         THEN /\ ret' = Returned("DeleteRoom", id, NoName, FALSE)
              /\ UNCHANGED <<rooms, roomName>>
         ELSE /\ rooms' = rooms \ {id}
              /\ roomName' = [roomName EXCEPT ![id] = NoName]
              /\ ret' = Returned("DeleteRoom", id, NoName, TRUE)
    /\ UNCHANGED <<mainpc, crashed, clients, closes, hubVars, connVars,
                   reqVars, chats, chatsByRoom, lockVars>>

StoreNext ==
    \/ \E id \in CallChatIDs, r \in SampleRooms : AddChat(id, r)
    \/ \E id \in CallChatIDs : DeleteChat(id)
    \/ \E r \in SampleRooms : DeleteChatsByRoom(r)
    \/ \E id \in CallRoomIDs, n \in CallNames : AddRoom(id, n)
    \/ \E id \in CallRoomIDs, n \in CallNames : UpdateRoom(id, n)
    \/ \E id \in CallRoomIDs : DeleteRoom(id)

StoreSpec == Init /\ [][StoreNext]_vars

\* The per-room index and the primary map of ChatStore agree: chat i is in
\* chatsByRoom[r] once if chats holds i with RoomID r, and not at all
\* otherwise.
IndexConsistent ==
    \A r \in RoomIDs, i \in ChatIDs :
        Count(chatsByRoom[r], i) = (IF chats[i] = r THEN 1 ELSE 0)

\* C24: ChatStore index consistency.  After any sequence of AddChat,
\* DeleteChat and DeleteChatsByRoom, AddChat with an ID already present
\* included, the index agrees with the primary map, so GetChatsByRoom(r)
\* returns exactly the stored chats of room r.
C24_IndexConsistency ==
    /\ IndexConsistent
    /\ \A r \in RoomIDs :
          Elems(GetChatsByRoom(r)) =
              {i \in ChatIDs : GetChat(i) /\ chats[i] = r}

\* ------------------------------------------------ absent and present keys
\* The call made in this step is op(id).
Calls(op, id) == ret'.op = op /\ ret'.id = id

\* The store op works on holds the key id.
Present(op, id) == IF op = "DeleteChat" THEN GetChat(id) ELSE GetRoom(id)

\* C26: store operations on an absent key fail without effect.  UpdateRoom
\* and DeleteRoom for a room ID not in the store and DeleteChat for a chat
\* ID not in the store return false and leave both stores unchanged; for a
\* present key they return true, and afterwards GetRoom finds the room with
\* the new Name (UpdateRoom), GetRoom does not find the room (DeleteRoom),
\* GetChat does not find the chat (DeleteChat).
C26_AbsentKeyNoEffect ==
    [][\A id \in RoomIDs \cup ChatIDs :
          /\ \A op \in {"UpdateRoom", "DeleteRoom", "DeleteChat"} :
                Calls(op, id) =>
                    IF Present(op, id)
                      THEN ret'.ok = TRUE
                      ELSE /\ ret'.ok = FALSE
                           /\ UNCHANGED <<rooms, roomName, chats,
                                          chatsByRoom>>
          /\ (Calls("UpdateRoom", id) /\ GetRoom(id)) =>
                /\ GetRoom(id)'
                /\ roomName' = [roomName EXCEPT ![id] = ret'.name]
                /\ rooms' = rooms
          /\ (Calls("DeleteRoom", id) /\ GetRoom(id)) =>
                /\ ~GetRoom(id)'
                /\ rooms' = rooms \ {id}
          /\ (Calls("DeleteChat", id) /\ GetChat(id)) => ~GetChat(id)']_vars

\* C26 witness: DeleteRoom has just returned false for a room ID that an
\* earlier DeleteRoom removed, and a chat has been deleted.
C26_Witness ==
    /\ ret = Returned("DeleteRoom", "1", NoName, FALSE)
    /\ ~GetRoom("1")
    /\ roomName["1"] = NoName
    /\ \E i \in CallChatIDs : ~GetChat(i)

\* ------------------------------------------------ the stores' RWMutex
\* Goroutines call the methods of the stores concurrently.  Each method
\* takes the store's mutex first (Lock for the writing methods, RLock for
\* the reading ones), runs its body and unlocks on return (defer).
WriteOps == {"AddRoom", "UpdateRoom", "DeleteRoom",
             "AddChat", "DeleteChat", "DeleteChatsByRoom"}
ReadOps == {"GetRooms", "GetRoom", "GetChats", "GetChat", "GetChatsByRoom"}

StoreOf(op) ==
    IF op \in {"AddRoom", "UpdateRoom", "DeleteRoom", "GetRooms", "GetRoom"}
      THEN "RoomStore" ELSE "ChatStore"

\* The IDs the concurrent callers pass: a stored one and a new one.
LockIDs == {"1", NewID(1)}

\* Lock without waiting for the readers that hold the mutex.
Lock_IgnoresReaders(t, op, id) ==
    /\ thr[t] = Idle
    /\ op \in WriteOps
    /\ ~mu[StoreOf(op)].w
    /\ op = "AddChat" => ~GetChat(id) /\ Len(chatsByRoom["1"]) < MaxChats
    /\ mu' = [mu EXCEPT ![StoreOf(op)].w = TRUE]
    /\ thr' = [thr EXCEPT ![t] = [op |-> op, pc |-> "locked", id |-> id,
                                  room |-> "1"]]
    /\ UNCHANGED <<mainpc, crashed, clients, closes, hubVars, connVars,
                   reqVars, storeVars>>

\* s.mutex.Lock() of a writing method returns: no writer and no reader
\* holds the mutex.  (AddChat is called with an ID not yet stored, for the
\* room "1".)
Lock(t, op, id) ==
    /\ thr[t] = Idle
    /\ op \in WriteOps
    /\ ~mu[StoreOf(op)].w
    /\ mu[StoreOf(op)].r = 0
    /\ op = "AddChat" => ~GetChat(id) /\ Len(chatsByRoom["1"]) < MaxChats
    /\ mu' = [mu EXCEPT ![StoreOf(op)].w = TRUE]
    /\ thr' = [thr EXCEPT ![t] = [op |-> op, pc |-> "locked", id |-> id,
                                  room |-> "1"]]
    /\ UNCHANGED <<mainpc, crashed, clients, closes, hubVars, connVars,
                   reqVars, storeVars>>

\* s.mutex.RLock() of a reading method returns: no writer holds the mutex.
RLock(t, op, id) ==
    /\ thr[t] = Idle
    /\ op \in ReadOps
    /\ ~mu[StoreOf(op)].w
    /\ mu' = [mu EXCEPT ![StoreOf(op)].r = @ + 1]
    /\ thr' = [thr EXCEPT ![t] = [op |-> op, pc |-> "rlocked", id |-> id,
                                  room |-> "1"]]
    /\ UNCHANGED <<mainpc, crashed, clients, closes, hubVars, connVars,
                   reqVars, storeVars>>

\* The body of a writing method up to and including its write of the
\* primary map (s.rooms or s.chats).
WritePrimary(t) ==
    LET op == thr[t].op
        id == thr[t].id
    IN
    /\ thr[t].pc = "locked"
    /\ rooms' = IF op = "AddRoom" THEN rooms \cup {id}
                ELSE IF op = "DeleteRoom" THEN rooms \ {id}
                ELSE rooms
    /\ roomName' = IF op = "AddRoom" \/ (op = "UpdateRoom" /\ GetRoom(id))
                     THEN [roomName EXCEPT ![id] = PostedName]
                   ELSE IF op = "DeleteRoom"
                     THEN [roomName EXCEPT ![id] = NoName]
                   ELSE roomName
    /\ chats' = IF op = "AddChat"
                  THEN [chats EXCEPT ![id] = thr[t].room]
                ELSE IF op = "DeleteChat"
                  THEN [chats EXCEPT ![id] = NoRoom]
                ELSE IF op = "DeleteChatsByRoom"
                  THEN [i \in ChatIDs |->
                          IF i \in Elems(chatsByRoom[thr[t].room])
                            THEN NoRoom ELSE chats[i]]
                ELSE chats
    /\ thr' = [thr EXCEPT ![t].pc = "mid",
                          ![t].room = IF op = "DeleteChat" THEN chats[id]
                                      ELSE @]
    /\ UNCHANGED <<mainpc, crashed, clients, closes, hubVars, connVars,
                   reqVars, chatsByRoom, ret, mu>>

\* The rest of the body of a writing method (the write of the room index
\* of ChatStore), the return and the deferred s.mutex.Unlock().
WriteIndexUnlock(t) ==
    LET op == thr[t].op
        id == thr[t].id
        room == thr[t].room
    IN
    /\ thr[t].pc = "mid"
    /\ chatsByRoom' =
          IF op = "AddChat"
            THEN [chatsByRoom EXCEPT ![room] = Append(@, id)]
          ELSE IF op = "DeleteChat" /\ room # NoRoom
            THEN [chatsByRoom EXCEPT ![room] = RemoveFirst(@, id)]
          ELSE IF op = "DeleteChatsByRoom"
            THEN [chatsByRoom EXCEPT ![room] = <<>>]
          ELSE chatsByRoom
    /\ mu' = [mu EXCEPT ![StoreOf(op)].w = FALSE]
    /\ thr' = [thr EXCEPT ![t] = Idle]
    /\ UNCHANGED <<mainpc, crashed, clients, closes, hubVars, connVars,
                   reqVars, rooms, roomName, chats, ret>>

\* A reading method returns what it read; the deferred s.mutex.RUnlock().
RUnlock(t) ==
    /\ thr[t].pc = "rlocked"
    /\ mu' = [mu EXCEPT ![StoreOf(thr[t].op)].r = @ - 1]
    /\ thr' = [thr EXCEPT ![t] = Idle]
    /\ UNCHANGED <<mainpc, crashed, clients, closes, hubVars, connVars,
                   reqVars, storeVars>>

LockNext ==
    \/ \E t \in Threads, op \in WriteOps, id \in LockIDs : Lock(t, op, id)
    \/ \E t \in Threads, op \in ReadOps, id \in LockIDs : RLock(t, op, id)
    \/ \E t \in Threads : WritePrimary(t)
    \/ \E t \in Threads : WriteIndexUnlock(t)
    \/ \E t \in Threads : RUnlock(t)

LockSpec == Init /\ [][LockNext]_vars

\* The goroutines inside a writing (reading) method of store s, the mutex
\* taken.
Writing(s) ==
    {t \in Threads : thr[t].pc \in {"locked", "mid"} /\ StoreOf(thr[t].op) = s}
Reading(s) ==
    {t \in Threads : thr[t].pc = "rlocked" /\ StoreOf(thr[t].op) = s}

\* C25: store lock discipline.  In each store at most one writing method
\* is in progress, and none while a reading method of the same store is in
\* progress; a reading method of ChatStore in progress therefore finds the
\* room index and the primary map in agreement (no chat is in the primary
\* map and not yet in the index).
C25_StoreLockDiscipline ==
    /\ \A s \in Stores :
          /\ Cardinality(Writing(s)) <= 1
          /\ Writing(s) # {} => Reading(s) = {}
          /\ mu[s].w <=> Writing(s) # {}
          /\ mu[s].r = Cardinality(Reading(s))
    /\ Reading("ChatStore") # {} => IndexConsistent

\* C25 witness: two reading methods of ChatStore are in progress together,
\* after an AddChat and a DeleteRoom have completed.
C25_Witness ==
    /\ Cardinality(Reading("ChatStore")) = 2
    /\ GetChat(NewID(1))
    /\ ~GetRoom("1")
====
